---- MODULE Spec2Model ----
(***************************************************************************)
(* Model of the Modified-Leitner flashcard algorithm functions of          *)
(* flashcard-app/backend/src/logic/algorithm.ts: toBucketSets,             *)
(* getBucketRange, practice, update, getHint and computeProgress.          *)
(*                                                                         *)
(* A JavaScript Set is an object: a Map or an Array holds a reference to   *)
(* it.  The model keeps the Set objects in `heap` (reference -> contents)  *)
(* and lets maps and arrays hold references, so that sharing a Set between *)
(* the caller's map and a returned map is visible.  A Flashcard is an      *)
(* object too; Set membership is by object identity, so a card is modelled *)
(* as an identity drawn from Cards.                                        *)
(***************************************************************************)
EXTENDS Integers, Sequences, FiniteSets, TLC

VARIABLES
    heap,           \* the Set<Flashcard> objects: reference -> set of cards
    buckets,        \* the caller's BucketMap (argument of the last call): key -> reference
    updatedBuckets, \* the BucketMap returned by the last update: key -> reference
    bucketSets,     \* the Array<Set<Flashcard>> returned by the last toBucketSets
    input,          \* the value argument the caller holds for getHint / computeProgress
    call            \* the last call: its name, arguments, result, and what its inputs held before

vars == <<heap, buckets, updatedBuckets, bucketSets, input, call>>

---------------------------------------------------------------------------
(* Bounds of the model *)

NumCards == 2       \* Flashcard objects in play
MaxKey == 5         \* largest bucket number of a map handed to update
MaxInitKeys == 2    \* most keys of a map the caller starts from
MaxDenseKey == 2    \* largest bucket number of a map handed to toBucketSets / computeProgress
MaxHistory == 2     \* most entries of a practice history
MaxHistDay == 1     \* largest day of a history entry
MaxFront == 3       \* most characters of a card's front
MaxHint == 1        \* most characters of a card's hint

Cards == 1..NumCards

\* AnswerDifficulty of ./flashcards (imported at algorithm.ts:11)
AnswerDifficulty == {"Wrong", "Hard", "Easy"}

---------------------------------------------------------------------------
(* Helpers: the Set heap and the Map / Array values over it *)

Min(a, b) == IF a <= b THEN a ELSE b

NoMap == [k \in {} |-> 0]

\* the references no live object has, smallest first: Unused(h, n) has at
\* least n of them
Unused(h, n) == (1..(Cardinality(DOMAIN h) + n)) \ DOMAIN h

\* new Set(): the reference of a freshly allocated object
NewRef(h) == CHOOSE r \in Unused(h, 1) : \A q \in Unused(h, 1) : r <= q

\* the j-th of n freshly allocated objects (j in 1..n), all distinct
NthNewRef(h, n, j) ==
    CHOOSE r \in Unused(h, n) : Cardinality({q \in Unused(h, n) : q <= r}) = j

\* the objects still referenced (the rest is garbage)
Restrict(h, R) == [r \in (R \cap DOMAIN h) |-> h[r]]

MapRefs(m) == {m[k] : k \in DOMAIN m}

SeqRefs(s) == {s[i] : i \in DOMAIN s}

\* what a map holds, by value: key -> set of cards
Contents(h, m) == [k \in DOMAIN m |-> h[m[k]]]

\* what an array holds, by value: a sequence of sets of cards
ArrayContents(h, s) == [i \in DOMAIN s |-> h[s[i]]]

\* the keys whose set holds card
Holders(c, card) == {k \in DOMAIN c : card \in c[k]}

RECURSIVE SumOver(_, _)
SumOver(f, S) ==
    IF S = {} THEN 0
    ELSE LET x == CHOOSE y \in S : TRUE IN f[x] + SumOver(f, S \ {x})

\* every card in at most one bucket (the caller-maintained invariant)
OnePerCard(c) == \A card \in Cards : Cardinality(Holders(c, card)) <= 1

---------------------------------------------------------------------------
(* update, algorithm.ts:100-139 *)

CapAt5(currentBucket, difficulty) ==
    IF difficulty = "Wrong" THEN 0
    ELSE IF difficulty = "Hard" THEN Min(currentBucket + 1, 5)
    ELSE Min(currentBucket + 2, 5)

HardAsEasy(currentBucket, difficulty) ==
    IF difficulty = "Wrong" THEN 0
    ELSE Min(currentBucket + 2, 4)

\* lines 123-130: the target bucket
NewBucket(currentBucket, difficulty) ==
    IF difficulty = "Wrong" THEN 0
    ELSE IF difficulty = "Hard" THEN Min(currentBucket + 1, 4)
    ELSE Min(currentBucket + 2, 4)

NoDelete(h, m, found, card) == h

ClearFound(h, m, found, card) ==
    IF found = -1 THEN h ELSE [h EXCEPT ![m[found]] = {}]

\* lines 109-115: cards.delete(card) on the Set in which the card was found
\* (found = -1: found in none).  The Set is the one the caller's map holds.
DeleteFound(h, m, found, card) ==
    IF found = -1 THEN h ELSE [h EXCEPT ![m[found]] = @ \ {card}]

\* lines 105-138: the whole function on map m, with `found` the key at which
\* the loop of line 109 found the card.  new Map(buckets) copies the
\* key -> reference entries and shares the Set objects.
UpdateResult(h, m, found, card, difficulty) ==
    LET cur == IF found = -1 THEN 0 ELSE found
        h1  == DeleteFound(h, m, found, card)
        nb  == NewBucket(cur, difficulty)
        m2  == IF nb \in DOMAIN m THEN m ELSE (nb :> NewRef(h1)) @@ m
        h2  == IF nb \in DOMAIN m THEN h1 ELSE (NewRef(h1) :> {}) @@ h1
    IN  [map |-> m2, heap |-> [h2 EXCEPT ![m2[nb]] = @ \cup {card}],
         currentBucket |-> cur, newBucket |-> nb]

\* the loop of lines 109-115 stops at the first entry, in the Map's iteration
\* order, whose Set has the card: one of the holders, or none
FoundAt(h, m, card) ==
    IF Holders(Contents(h, m), card) = {} THEN {-1}
    ELSE Holders(Contents(h, m), card)

\* Object identity is observable only through sharing, so after a call the
\* live Set objects are renamed: the Set under key k of the returned map
\* (and of the argument, which shares it) becomes reference k + 1; the Sets
\* no map refers to any more are garbage.
Renamed(m) == [k \in DOMAIN m |-> k + 1]

RenamedHeap(h, m) == [r \in {k + 1 : k \in DOMAIN m} |-> h[m[r - 1]]]

\* the maps the caller can pass: the one it passed last, or the one returned last
Passable == IF call.op = "update" THEN {buckets, updatedBuckets} ELSE {buckets}

Update ==
    \E m \in Passable, card \in Cards, difficulty \in AnswerDifficulty :
      \E found \in FoundAt(heap, m, card) :
        LET r == UpdateResult(heap, m, found, card, difficulty) IN
          /\ buckets' = Renamed(m)
          /\ updatedBuckets' = Renamed(r.map)
          /\ heap' = RenamedHeap(r.heap, r.map)
          /\ call' = [op |-> "update", card |-> card, difficulty |-> difficulty,
                      before |-> Contents(heap, m)]
          /\ UNCHANGED <<bucketSets, input>>

\* the bucket maps the caller starts from: at most MaxInitKeys keys up to
\* maxKey, each with its own Set object
KeySets(maxKey) == {K \in SUBSET (0..maxKey) : Cardinality(K) <= MaxInitKeys}

InitMap(K) == [k \in K |-> k + 1]

InitUpdate ==
    /\ \E K \in KeySets(MaxKey) :
         /\ buckets = InitMap(K)
         /\ heap \in [{k + 1 : k \in K} -> SUBSET Cards]
    /\ OnePerCard(Contents(heap, buckets))
    /\ updatedBuckets = NoMap
    /\ bucketSets = <<>>
    /\ input = "none"
    /\ call = [op |-> "init"]

NextUpdate == Update

SpecUpdate == InitUpdate /\ [][NextUpdate]_vars

(* What the last update call saw and produced *)

Updated == call.op = "update"

\* the returned map, by value
After == Contents(heap, updatedBuckets)

\* the caller's own map (the argument), by value, as it is after the call
CallerAfter == Contents(heap, buckets)

Total(c) == SumOver([k \in DOMAIN c |-> Cardinality(c[k])], DOMAIN c)

WasNew == Holders(call.before, call.card) = {}

\* C1: update does not mutate its input: after the call the caller's map has
\* the same keys and each of its sets holds the same cards as before the call.
C1_InputUnchanged == Updated => CallerAfter = call.before

\* C2: after every update call the updated card sits only in buckets of index
\* <= 4, and a card that was in bucket 4 and is answered Hard or Easy is in
\* bucket 4 afterwards.
C2_CeilingFour ==
    Updated =>
      /\ Holders(After, call.card) # {}
      /\ \A k \in Holders(After, call.card) : k <= 4
      /\ (4 \in Holders(call.before, call.card)
            /\ call.difficulty \in {"Hard", "Easy"})
           => Holders(After, call.card) = {4}

C2_Witness ==
    /\ Updated
    /\ 4 \in DOMAIN call.before
    /\ call.card \in call.before[4]
    /\ call.difficulty = "Easy"
    /\ Holders(After, call.card) = {4}

\* C3 as stated: the total card count of the returned map equals that of the
\* map passed in, whether the card was in a bucket or new.
C3_TotalConserved == Updated => Total(After) = Total(call.before)

\* C3 amended: with every card in at most one bucket of the map passed in,
\* the total is unchanged when the card was in some bucket and grows by
\* exactly one when the card was in none.
C3_TotalConservedOrPlusOne ==
    (Updated /\ OnePerCard(call.before)) =>
      Total(After) = Total(call.before) + (IF WasNew THEN 1 ELSE 0)

C3_Witness ==
    /\ Updated
    /\ WasNew
    /\ Total(call.before) > 0
    /\ Total(After) = Total(call.before) + 1

\* C4: with c the bucket the card was in (0 when in none), the returned map
\* has the card in bucket 0 after Wrong, min(c + 1, 4) after Hard and
\* min(c + 2, 4) after Easy, a bucket that exists in the returned map even
\* when the map passed in had no such key.
C4_TargetBucket ==
    (Updated /\ OnePerCard(call.before)) =>
      LET c == IF WasNew THEN 0
               ELSE CHOOSE k \in DOMAIN call.before : call.card \in call.before[k]
          t == CASE call.difficulty = "Wrong" -> 0
                 [] call.difficulty = "Hard" -> IF c + 1 < 4 THEN c + 1 ELSE 4
                 [] call.difficulty = "Easy" -> IF c + 2 < 4 THEN c + 2 ELSE 4
      IN  /\ t \in DOMAIN updatedBuckets
          /\ call.card \in After[t]

C4_Witness ==
    /\ Updated
    /\ WasNew
    /\ call.difficulty = "Easy"
    /\ 2 \notin DOMAIN call.before
    /\ 2 \in DOMAIN updatedBuckets
    /\ call.card \in After[2]

\* C10: from a map with every card in at most one bucket, the returned map
\* has every card in at most one bucket, the updated card in exactly one, and
\* every other card in the bucket it was in before the call.
C10_OnePerCardKept ==
    (Updated /\ OnePerCard(call.before)) =>
      /\ OnePerCard(After)
      /\ Cardinality(Holders(After, call.card)) = 1
      /\ \A other \in Cards \ {call.card} :
            Holders(After, other) = Holders(call.before, other)

C10_Witness ==
    /\ Updated
    /\ OnePerCard(call.before)
    /\ \E other \in Cards \ {call.card} :
         /\ Holders(call.before, other) # {}
         /\ Holders(call.before, other) = Holders(call.before, call.card)
         /\ Holders(After, other) # Holders(After, call.card)

---------------------------------------------------------------------------
(* toBucketSets, algorithm.ts:21-33 *)

\* line 23: Math.max over the keys (of a map that has keys)
MaxBucket(m) == CHOOSE k \in DOMAIN m : \A j \in DOMAIN m : j <= k

AlwaysNewSet(h, m, i) ==
    NthNewRef(Restrict(h, MapRefs(m)), MaxBucket(m) + 1, i + 1)

\* lines 25-30: the Set at index i of the result: the caller's own Set object
\* when i is a key (line 28), else one of the Sets allocated at line 25, a
\* different one for each index.  The Sets only the array of an earlier call
\* held are garbage once the caller takes the new array, and their
\* references are free to be used again.
DenseEntry(h, m, i) ==
    IF i \in DOMAIN m THEN m[i]
    ELSE NthNewRef(Restrict(h, MapRefs(m)), MaxBucket(m) + 1, i + 1)

\* the array of lines 25-32; index i of the array is element i + 1 of the sequence
DenseArray(h, m) == [j \in 1..(MaxBucket(m) + 1) |-> DenseEntry(h, m, j - 1)]

\* the heap with the Sets of line 25 that stay in the array (the ones
\* overwritten at line 28 are garbage at once)
DenseHeap(h, m) ==
    LET a == DenseArray(h, m) IN
      [r \in SeqRefs(a) \cup MapRefs(m) |-> IF r \in MapRefs(m) THEN h[r] ELSE {}]

\* line 23 on a map without keys: Math.max() is -Infinity and
\* new Array(-Infinity + 1) throws RangeError
ToBucketSets ==
    /\ call' = [op |-> "toBucketSets", threw |-> (DOMAIN buckets = {}),
                before |-> Contents(heap, buckets)]
    /\ IF DOMAIN buckets = {}
         THEN UNCHANGED <<heap, bucketSets>>
         ELSE /\ bucketSets' = DenseArray(heap, buckets)
              /\ heap' = DenseHeap(heap, buckets)
    /\ UNCHANGED <<buckets, updatedBuckets, input>>

---------------------------------------------------------------------------
(* getBucketRange, algorithm.ts:44-60 *)

\* lines 50-55: the indices whose Set has cards
Occupied(h, s) == {i \in 0..(Len(s) - 1) : h[s[i + 1]] # {}}

\* lines 47-59
BucketRange(h, s) ==
    IF Occupied(h, s) = {} THEN "undefined"
    ELSE [minBucket |-> CHOOSE i \in Occupied(h, s) : \A j \in Occupied(h, s) : i <= j,
          maxBucket |-> CHOOSE i \in Occupied(h, s) : \A j \in Occupied(h, s) : j <= i]

GetBucketRange ==
    /\ call' = [op |-> "getBucketRange", range |-> BucketRange(heap, bucketSets)]
    /\ UNCHANGED <<heap, buckets, updatedBuckets, bucketSets, input>>

---------------------------------------------------------------------------
(* practice, algorithm.ts:74-88 *)

Days == 0..(2 ^ MaxDenseKey)

DueEveryIndexPlusOne(bucketIndex, day) == day % (bucketIndex + 1) = 0

\* line 81
Due(bucketIndex, day) == day % (2 ^ bucketIndex) = 0

\* lines 78-87: the cards added to reviewSet
ReviewCards(h, s, day) ==
    UNION {h[s[i + 1]] : i \in {j \in 0..(Len(s) - 1) : Due(j, day)}}

\* reviewSet is a Set of its own (line 78) that nothing else refers to; the
\* call record keeps what it holds
Practice ==
    \E day \in Days :
      /\ call' = [op |-> "practice", day |-> day,
                  reviewSet |-> ReviewCards(heap, bucketSets, day),
                  array |-> bucketSets, before |-> ArrayContents(heap, bucketSets)]
      /\ UNCHANGED <<heap, buckets, updatedBuckets, bucketSets, input>>

\* any bucket map: at most MaxInitKeys keys up to MaxDenseKey, each with its
\* own Set object; a card may sit in several buckets
InitDense ==
    /\ \E K \in KeySets(MaxDenseKey) :
         /\ buckets = InitMap(K)
         /\ heap \in [{k + 1 : k \in K} -> SUBSET Cards]
    /\ updatedBuckets = NoMap
    /\ bucketSets = <<>>
    /\ input = "none"
    /\ call = [op |-> "init"]

NextDense == ToBucketSets \/ GetBucketRange \/ Practice

SpecDense == InitDense /\ [][NextDense]_vars

(* What the last toBucketSets / practice call saw and produced *)

Converted == call.op = "toBucketSets"

Practised == call.op = "practice"

\* the returned array, by value
Dense == ArrayContents(heap, bucketSets)

\* the cards practice returned
Reviewed == call.reviewSet

\* interval 2^i of bucket i divides day
Divides(i, day) == \E q \in 0..day : q * (2 ^ i) = day

\* C5: a card is in practice's result exactly when it is in some bucket i
\* whose interval 2^i divides day; all of bucket 0 is returned on every day;
\* the array and its sets are as they were before the call.
C5_ExactlyDueBuckets ==
    Practised =>
      /\ \A card \in Cards :
            card \in Reviewed <=>
              \E i \in 0..(Len(call.before) - 1) :
                card \in call.before[i + 1] /\ Divides(i, call.day)
      /\ Len(call.before) > 0 => call.before[1] \subseteq Reviewed
      /\ bucketSets = call.array
      /\ Dense = call.before

C5_Witness ==
    /\ Practised
    /\ call.day > 0
    /\ Len(call.before) >= 3
    /\ \E card \in Cards :
         /\ card \in call.before[2]
         /\ card \in call.before[3]
         /\ ~Divides(2, call.day)
         /\ card \in Reviewed
    /\ \E card \in Cards :
         /\ card \in call.before[3]
         /\ card \notin Reviewed

\* C6 as stated: for every bucket map toBucketSets returns a sequence of
\* length (largest key + 1) whose set at index k is the map's set for key k
\* when k is a key and empty otherwise.
C6_DenseForEveryMap ==
    Converted =>
      /\ ~call.threw
      /\ \A k \in DOMAIN call.before :
            /\ k + 1 <= Len(bucketSets)
            /\ Dense[k + 1] = call.before[k]
      /\ \A i \in 1..Len(bucketSets) :
            (i - 1) \notin DOMAIN call.before => Dense[i] = {}
      /\ \E k \in DOMAIN call.before : Len(bucketSets) = k + 1

\* C6 amended: for every bucket map with at least one key, the returned
\* sequence has length (largest key + 1), its set at index k is the map's set
\* for key k when k is a key and empty otherwise, and the sets at distinct
\* indices are distinct objects; for the map without keys the call throws.
C6_DenseForNonEmptyMap ==
    Converted =>
      IF DOMAIN call.before = {} THEN call.threw
      ELSE
        /\ ~call.threw
        /\ \A k \in DOMAIN call.before :
              /\ k + 1 <= Len(bucketSets)
              /\ Dense[k + 1] = call.before[k]
        /\ \A i \in 1..Len(bucketSets) :
              (i - 1) \notin DOMAIN call.before => Dense[i] = {}
        /\ \E k \in DOMAIN call.before : Len(bucketSets) = k + 1
        /\ \A i, j \in 1..Len(bucketSets) : i # j => bucketSets[i] # bucketSets[j]

C6_Witness ==
    /\ Converted
    /\ ~call.threw
    /\ Len(bucketSets) = 3
    /\ DOMAIN call.before = {0, 2}
    /\ Dense[1] # {}
    /\ Dense[2] = {}
    /\ Dense[3] # {}
    /\ Dense[1] # Dense[3]

---------------------------------------------------------------------------
(* computeProgress, algorithm.ts:194-237 *)

\* A JavaScript number that is a quotient of two integers is kept as the
\* fraction in lowest terms (the rounding of the double is not modelled).
RECURSIVE GCD(_, _)
GCD(a, b) == IF b = 0 THEN a ELSE GCD(b, a % b)

\* n / d for d > 0
Ratio(n, d) == [num |-> n \div GCD(n, d), den |-> d \div GCD(n, d)]

\* r * k
RatioTimes(r, k) == Ratio(r.num * k, r.den)

\* history entries as the function reads them (line 220 takes day and
\* difficulty of each entry and leaves its card alone)
HistoryEntries == [day : 0..MaxHistDay, difficulty : AnswerDifficulty]

RECURSIVE SeqsUpTo(_, _)
SeqsUpTo(S, n) ==
    IF n = 0 THEN {<<>>}
    ELSE LET shorter == SeqsUpTo(S, n - 1) IN
           shorter \cup {Append(q, x) : q \in {t \in shorter : Len(t) = n - 1}, x \in S}

Histories == SeqsUpTo(HistoryEntries, MaxHistory)

\* lines 211-213: totalCards after the forEach over the buckets
TotalCards(c) == SumOver([k \in DOMAIN c |-> Cardinality(c[k])], DOMAIN c)

DistributionOfOccupied(c) ==
    [k \in {j \in DOMAIN c : c[j] # {}} |-> Cardinality(c[k])]

\* line 214: bucketDistribution[bucketNumber] = count, for every entry of the map
BucketDistribution(c) == [k \in DOMAIN c |-> Cardinality(c[k])]

\* line 215: totalBucketSum
TotalBucketSum(c) == SumOver([k \in DOMAIN c |-> k * Cardinality(c[k])], DOMAIN c)

\* line 218
AverageBucket(c) ==
    IF TotalCards(c) > 0 THEN Ratio(TotalBucketSum(c), TotalCards(c)) ELSE Ratio(0, 1)

\* line 221, over the whole history: day -> number of entries of that day
RECURSIVE PracticeHistory(_)
PracticeHistory(history) ==
    IF history = <<>> THEN NoMap
    ELSE LET rest == PracticeHistory(SubSeq(history, 1, Len(history) - 1))
             day  == history[Len(history)].day
         IN  (day :> (IF day \in DOMAIN rest THEN rest[day] ELSE 0) + 1) @@ rest

RECURSIVE OnlyEasyCounts(_)
OnlyEasyCounts(history) ==
    IF history = <<>> THEN 0
    ELSE OnlyEasyCounts(Tail(history))
           + (IF Head(history).difficulty = "Easy" THEN 1 ELSE 0)

\* lines 223-225: correctAttempts after the forEach over the history
RECURSIVE CorrectAttempts(_)
CorrectAttempts(history) ==
    IF history = <<>> THEN 0
    ELSE CorrectAttempts(Tail(history))
           + (IF Head(history).difficulty = "Hard" \/ Head(history).difficulty = "Easy"
              THEN 1 ELSE 0)

\* line 222: totalAttempts; line 228
AccuracyRate(history) ==
    IF Len(history) > 0
    THEN RatioTimes(Ratio(CorrectAttempts(history), Len(history)), 100)
    ELSE Ratio(0, 1)

\* computeProgress(buckets, input)
ComputeProgress ==
    /\ call' = [op |-> "computeProgress", history |-> input,
                totalCards |-> TotalCards(Contents(heap, buckets)),
                bucketDistribution |-> BucketDistribution(Contents(heap, buckets)),
                averageBucket |-> AverageBucket(Contents(heap, buckets)),
                practiceHistory |-> PracticeHistory(input),
                accuracyRate |-> AccuracyRate(input)]
    /\ UNCHANGED <<heap, buckets, updatedBuckets, bucketSets, input>>

\* a valid bucket map (keys up to MaxDenseKey, every card in at most one
\* bucket) and a history
InitProgress ==
    /\ \E K \in KeySets(MaxDenseKey) :
         /\ buckets = InitMap(K)
         /\ heap \in [{k + 1 : k \in K} -> SUBSET Cards]
    /\ OnePerCard(Contents(heap, buckets))
    /\ updatedBuckets = NoMap
    /\ bucketSets = <<>>
    /\ input \in Histories
    /\ call = [op |-> "init"]

NextProgress == ComputeProgress

SpecProgress == InitProgress /\ [][NextProgress]_vars

(* What the last computeProgress call saw and produced *)

Computed == call.op = "computeProgress"

Bucketed == Contents(heap, buckets)

NumCorrect ==
    Cardinality({i \in 1..Len(call.history) : call.history[i].difficulty # "Wrong"})

C8_BucketStatistics ==
    Computed =>
      LET d == call.bucketDistribution
          a == call.averageBucket
      IN  /\ DOMAIN d = DOMAIN buckets
          /\ \A k \in DOMAIN buckets : d[k] = Cardinality(Bucketed[k])
          /\ call.totalCards = Cardinality({<<k, x>> \in (DOMAIN buckets) \X Cards : x \in Bucketed[k]})
          /\ SumOver(d, DOMAIN d) = call.totalCards
          /\ a.den > 0
          /\ a.num * call.totalCards =
               a.den * SumOver([k \in DOMAIN d |-> k * d[k]], DOMAIN d)
          /\ call.totalCards = 0 => a.num = 0

C8_Witness ==
    /\ Computed
    /\ call.totalCards >= 2
    /\ \E k \in DOMAIN buckets : call.bucketDistribution[k] = 0
    /\ call.averageBucket.num > 0

---------------------------------------------------------------------------
(* getHint, algorithm.ts:150-172 *)

\* the characters of the strings: a white space and two others
Chars == {" ", "a", "b"}

Strings(n) == SeqsUpTo(Chars, n)

\* the Flashcard fields getHint reads
HintCards == [front : Strings(MaxFront), hint : Strings(MaxHint)]

\* String.prototype.trim: the string without its leading and trailing white space
RECURSIVE Trim(_)
Trim(s) ==
    IF s = <<>> THEN s
    ELSE IF Head(s) = " " THEN Trim(Tail(s))
    ELSE IF s[Len(s)] = " " THEN Trim(SubSeq(s, 1, Len(s) - 1))
    ELSE s

LengthUntrimmed(s) == Len(s)

\* lines 152, 157: s.trim().length
TrimmedLength(s) == Len(Trim(s))

\* line 168: "*".repeat(n)
RECURSIVE Stars(_)
Stars(n) == IF n <= 0 THEN <<>> ELSE <<"*">> \o Stars(n - 1)

NoHintAvailable ==
    <<"N", "o", " ", "h", "i", "n", "t", " ", "a", "v", "a", "i", "l", "a", "b", "l", "e">>

\* lines 152-170
Hint(card) ==
    IF TrimmedLength(card.hint) > 0 THEN card.hint
    ELSE IF TrimmedLength(card.front) = 0 THEN NoHintAvailable
    ELSE IF Len(card.front) <= 2 THEN card.front
    ELSE <<card.front[1]>> \o Stars(Len(card.front) - 2) \o <<card.front[Len(card.front)]>>

\* getHint(input)
GetHint ==
    /\ call' = [op |-> "getHint", card |-> input, hint |-> Hint(input)]
    /\ UNCHANGED <<heap, buckets, updatedBuckets, bucketSets, input>>

InitHint ==
    /\ heap = NoMap
    /\ buckets = NoMap
    /\ updatedBuckets = NoMap
    /\ bucketSets = <<>>
    /\ input \in HintCards
    /\ call = [op |-> "init"]

NextHint == GetHint

SpecHint == InitHint /\ [][NextHint]_vars

(* What the last getHint call saw and produced *)

Hinted == call.op = "getHint"

Blank(s) == \A i \in 1..Len(s) : s[i] = " "

\* C9: a hint that is not all white space is returned as it is; else a front
\* that is empty or all white space gives "No hint available"; else a front
\* of at most 2 characters is returned as it is; else the result has the
\* front's length, its first and last characters, and '*' in between.
C9_HintPriority ==
    Hinted =>
      LET front == call.card.front
          hint  == call.card.hint
          out   == call.hint
      IN  IF ~Blank(hint) THEN out = hint
          ELSE IF Blank(front) THEN out = NoHintAvailable
          ELSE IF Len(front) <= 2 THEN out = front
          ELSE /\ Len(out) = Len(front)
               /\ out[1] = front[1]
               /\ out[Len(out)] = front[Len(front)]
               /\ \A i \in 2..(Len(out) - 1) : out[i] = "*"

C9_Witness ==
    /\ Hinted
    /\ call.card.hint = <<" ">>
    /\ call.card.front = <<" ", "a", "b">>
    /\ call.hint = <<" ", "*", "b">>

====
